---- MODULE Spec2Model ----
(***************************************************************************)
(* Model of pygel's NumberedEdgeDirectedGraph                              *)
(* (src/pygel/Graph/NumberedEdgeDirectedGraph.py): the graph store with    *)
(* its vertex, edge and adjacency indices and its degree counters.         *)
(*                                                                         *)
(* A Python dict is a TLA+ function whose DOMAIN is the dict's key set; a  *)
(* Python list is a sequence.  The variable result holds what the last     *)
(* call returned or the exception it raised.                               *)
(***************************************************************************)
EXTENDS Integers, Sequences, FiniteSets, TLC

\* Vertex numbers passed by callers are drawn from 0..MaxVertex.
MaxVertex == 1

\* A behaviour makes at most MaxCalls calls of the store's methods.
MaxCalls == 4

\* Degrees passed to getVerticesByInDegree / getVerticesByOutDegree are drawn
\* from 0..MaxDegreeArg.
MaxDegreeArg == 2

\* A getSCComponents call that is followed statement by statement comes after
\* at most MaxRunPrefix mutating calls.
MaxRunPrefix == 2

VertexNumbers == 0..MaxVertex

\* Edge numbers passed to deleteEdge; MaxCalls itself is never assigned.
EdgeNumbers == 0..MaxCalls

VARIABLES
    edgeIndex,          \* self.edgeIndex: edge number -> Edge
    vertexIndex,        \* self.vertexIndex: vertex number -> Vertex
    parentIndex,        \* self.parentIndex: start vertex -> list of end vertices
    parentEdgeIndex,    \* self.parentEdgeIndex: start -> list of <<end, edge number>>
    lastEdgeNumber,     \* self.__lastEdgeNumber
    inDegreeCount,      \* self.__inDegreeCount
    outDegreeCount,     \* self.__outDegreeCount
    degreeCount,        \* self.__degreeCount
    lastOp,             \* name of the method called last
    lastArg,            \* the arguments of a query called last (None otherwise)
    result,             \* what that call returned or raised
    numCalls,           \* history: number of calls so far
    numAdds,            \* history: number of addEdge calls so far
    preAdd,             \* history: the store before the addEdge of a round trip
    run                 \* the getSCComponents call in progress, if any

storeVars == <<edgeIndex, vertexIndex, parentIndex, parentEdgeIndex,
               lastEdgeNumber, inDegreeCount, outDegreeCount, degreeCount>>

vars == <<edgeIndex, vertexIndex, parentIndex, parentEdgeIndex,
          lastEdgeNumber, inDegreeCount, outDegreeCount, degreeCount,
          lastOp, lastArg, result, numCalls, numAdds, preAdd, run>>

----------------------------------------------------------------------------
\* Value objects and dict helpers

\* self.__lastEdgeNumber as callers read it
getLastEdgeNumber == lastEdgeNumber

Vertex(n) == [vertexNumber |-> n]

Edge(s, e) == [startVertex |-> Vertex(s), endVertex |-> Vertex(e)]

EmptyDict == [k \in {} |-> 0]

\* d[k] = v
Put(d, k, v) == [x \in DOMAIN d \cup {k} |-> IF x = k THEN v ELSE d[x]]

\* del d[k]
Del(d, k) == [x \in DOMAIN d \ {k} |-> d[x]]

\* d[k] read with an absent key as 0
Get0(d, k) == IF k \in DOMAIN d THEN d[k] ELSE 0

\* The store as one value
Store == [edgeIndex |-> edgeIndex, vertexIndex |-> vertexIndex,
          parentIndex |-> parentIndex, parentEdgeIndex |-> parentEdgeIndex,
          lastEdgeNumber |-> lastEdgeNumber, inDegreeCount |-> inDegreeCount,
          outDegreeCount |-> outDegreeCount, degreeCount |-> degreeCount]

SetStore(st) ==
    /\ edgeIndex' = st.edgeIndex
    /\ vertexIndex' = st.vertexIndex
    /\ parentIndex' = st.parentIndex
    /\ parentEdgeIndex' = st.parentEdgeIndex
    /\ lastEdgeNumber' = st.lastEdgeNumber
    /\ inDegreeCount' = st.inDegreeCount
    /\ outDegreeCount' = st.outDegreeCount
    /\ degreeCount' = st.degreeCount

NoSnapshot == [taken |-> FALSE]

\* No getSCComponents call is in progress
NoRun == [active |-> FALSE]

\* Python's None, and the outcome of a call: a returned value or an exception
None == <<>>

Returned(v) == [raised |-> "", value |-> v]

Raised(exc) == [raised |-> exc, value |-> None]

\* What lastOp holds until a query is called.  A behaviour is a sequence of
\* mutating calls that a query may end.
MutatingOps == {"init", "addEdge", "deleteEdge", "addVertex", "deleteVertex"}

\* The call history after a call of the mutating method op that returned or
\* raised r
Called(op, r) ==
    /\ numCalls < MaxCalls
    /\ lastOp \in MutatingOps
    /\ numCalls' = numCalls + 1
    /\ lastOp' = op
    /\ lastArg' = None
    /\ result' = r
    /\ UNCHANGED run

----------------------------------------------------------------------------
\* __init__

Init ==
    /\ edgeIndex = EmptyDict
    /\ vertexIndex = EmptyDict
    /\ parentIndex = EmptyDict
    /\ parentEdgeIndex = EmptyDict
    /\ lastEdgeNumber = -1
    /\ inDegreeCount = EmptyDict
    /\ outDegreeCount = EmptyDict
    /\ degreeCount = EmptyDict
    /\ lastOp = "init"
    /\ lastArg = None
    /\ result = Returned(None)
    /\ numCalls = 0
    /\ numAdds = 0
    /\ preAdd = NoSnapshot
    /\ run = NoRun

----------------------------------------------------------------------------
\* addEdge

\* if k not in index: index[k] = v
PutIfAbsent(d, k, v) == IF k \in DOMAIN d THEN d ELSE Put(d, k, v)

\* if k not in index: index[k] = [x]  else: index[k].append(x)
AppendTo(d, k, x) ==
    IF k \in DOMAIN d THEN Put(d, k, Append(d[k], x)) ELSE Put(d, k, <<x>>)

\* try: cnt[v] += 1; deg[v] += 1   except KeyError: cnt[v] = 1; deg[v] = 1
\* Returns <<cnt, deg>> after the statement.
IncrementCounts(cnt, deg, v) ==
    IF v \in DOMAIN cnt /\ v \in DOMAIN deg
    THEN <<Put(cnt, v, cnt[v] + 1), Put(deg, v, deg[v] + 1)>>
    ELSE <<Put(cnt, v, 1), Put(deg, v, 1)>>

\* NextEdgeNumber with the increment forgotten
NextEdgeNumberNoIncrement(last) == last

\* The number addEdge assigns: self.__lastEdgeNumber += 1
NextEdgeNumber(last) == last + 1

\* addEdgeReturn handing back the number just assigned
addEdgeReturnNumber(st) == Returned(<<st.lastEdgeNumber>>)

\* What addEdge returns: the method has no return statement.
addEdgeReturn(st) == Returned(None)

\* The store after addEdge(Edge(Vertex(s), Vertex(e))) on store st
addEdge(st, s, e) ==
    LET n   == NextEdgeNumber(st.lastEdgeNumber)
        vi1 == PutIfAbsent(st.vertexIndex, s, Vertex(s))
        vi2 == PutIfAbsent(vi1, e, Vertex(e))
        od  == IncrementCounts(st.outDegreeCount, st.degreeCount, s)
        id  == IncrementCounts(st.inDegreeCount, od[2], e)
    IN  [edgeIndex |-> Put(st.edgeIndex, n, Edge(s, e)),
         vertexIndex |-> vi2,
         parentIndex |-> AppendTo(st.parentIndex, s, e),
         parentEdgeIndex |-> AppendTo(st.parentEdgeIndex, s, <<e, n>>),
         lastEdgeNumber |-> n,
         inDegreeCount |-> id[1],
         outDegreeCount |-> od[1],
         degreeCount |-> id[2]]

AddEdge(s, e) ==
    /\ Called("addEdge", addEdgeReturn(addEdge(Store, s, e)))
    /\ SetStore(addEdge(Store, s, e))
    /\ numAdds' = numAdds + 1
    /\ preAdd' = [taken |-> TRUE, edge |-> <<s, e>>,
                  vertexIndex |-> vertexIndex, edgeIndex |-> edgeIndex,
                  inDegreeCount |-> inDegreeCount,
                  outDegreeCount |-> outDegreeCount,
                  degreeCount |-> degreeCount]

----------------------------------------------------------------------------
\* deleteEdge

Contains(seq, x) == \E i \in 1..Len(seq) : seq[i] = x

FirstIndexOf(seq, x) ==
    CHOOSE i \in 1..Len(seq) :
        seq[i] = x /\ \A j \in 1..(i - 1) : seq[j] # x

\* list.remove(x): drops the first element equal to x (x is in seq)
ListRemove(seq, x) ==
    LET i == FirstIndexOf(seq, x)
    IN  [j \in 1..(Len(seq) - 1) |-> IF j < i THEN seq[j] ELSE seq[j + 1]]

\* DecrementCounts with the first decrement forgotten
DecrementCountsDegreeOnly(cnt, deg, v) ==
    IF v \notin DOMAIN cnt \/ v \notin DOMAIN deg THEN <<cnt, deg>>
    ELSE <<cnt, Put(deg, v, deg[v] - 1)>>

\* try: cnt[v] -= 1; deg[v] -= 1   except KeyError: pass
\* Returns <<cnt, deg>> after the statement.
DecrementCounts(cnt, deg, v) ==
    IF v \notin DOMAIN cnt THEN <<cnt, deg>>
    ELSE IF v \notin DOMAIN deg THEN <<Put(cnt, v, cnt[v] - 1), deg>>
    ELSE <<Put(cnt, v, cnt[v] - 1), Put(deg, v, deg[v] - 1)>>

\* parentIndex after: if s in parentIndex: parentIndex[s].remove(e)
RemoveFromParentIndex(pi, s, e) == Put(pi, s, ListRemove(pi[s], e))

\* RemoveFromParentEdgeIndex matching by end vertex only: drops the first pair
\* whose end vertex is e, whatever its edge number
RemoveFromParentEdgeIndexByEnd(pei, s, e, n) ==
    LET i == CHOOSE k \in 1..Len(pei[s]) :
                 pei[s][k][1] = e /\ \A j \in 1..(k - 1) : pei[s][j][1] # e
    IN  Put(pei, s, ListRemove(pei[s], pei[s][i]))

\* parentEdgeIndex after:
\* if s in parentEdgeIndex: parentEdgeIndex[s].remove([e, edgeNumber])
RemoveFromParentEdgeIndex(pei, s, e, n) == Put(pei, s, ListRemove(pei[s], <<e, n>>))

\* deleteEdge(n) on store st: the store it leaves and what it returns or raises
deleteEdge(st, n) ==
    IF n \notin DOMAIN st.edgeIndex
    THEN [store |-> st, result |-> Raised("KeyError")]
    ELSE
    LET s == st.edgeIndex[n].startVertex.vertexNumber
        e == st.edgeIndex[n].endVertex.vertexNumber
        inPI  == s \in DOMAIN st.parentIndex
        inPEI == s \in DOMAIN st.parentEdgeIndex
    IN
    IF inPI /\ ~Contains(st.parentIndex[s], e)
    THEN [store |-> st, result |-> Raised("ValueError")]
    ELSE
    LET pi1 == IF inPI THEN RemoveFromParentIndex(st.parentIndex, s, e)
               ELSE st.parentIndex
        st1 == [st EXCEPT !.parentIndex = pi1]
    IN
    IF inPEI /\ ~Contains(st.parentEdgeIndex[s], <<e, n>>)
    THEN [store |-> st1, result |-> Raised("ValueError")]
    ELSE
    LET pei1 == IF inPEI
                THEN RemoveFromParentEdgeIndex(st.parentEdgeIndex, s, e, n)
                ELSE st.parentEdgeIndex
        od == DecrementCounts(st.outDegreeCount, st.degreeCount, s)
        id == DecrementCounts(st.inDegreeCount, od[2], e)
    IN  [store |-> [st1 EXCEPT !.parentEdgeIndex = pei1,
                               !.outDegreeCount = od[1],
                               !.inDegreeCount = id[1],
                               !.degreeCount = id[2],
                               !.edgeIndex = Del(st.edgeIndex, n)],
         result |-> Returned(None)]

DeleteEdge(n) ==
    LET r == deleteEdge(Store, n)
    IN  /\ SetStore(r.store)
        /\ Called("deleteEdge", r.result)
        /\ numAdds' = numAdds
        /\ preAdd' = IF lastOp = "addEdge" /\ n = lastEdgeNumber /\ r.result = Returned(None)
                     THEN preAdd ELSE NoSnapshot

----------------------------------------------------------------------------
\* addVertex, deleteVertex

\* addVertex that overwrites a present vertex instead of raising
addVertexOverwrite(st, v) ==
    [store |-> [st EXCEPT !.vertexIndex = Put(st.vertexIndex, v, Vertex(v))],
     result |-> Returned(None)]

\* try: self.vertexIndex[v]; raise VertexError(...)
\* except KeyError: self.vertexIndex[v] = Vertex(v)
addVertex(st, v) ==
    IF v \in DOMAIN st.vertexIndex
    THEN [store |-> st, result |-> Raised("VertexError")]
    ELSE [store |-> [st EXCEPT !.vertexIndex = Put(st.vertexIndex, v, Vertex(v))],
          result |-> Returned(None)]

\* deleteVertex that also drops the vertex's degree counters
deleteVertexCascade(st, v) ==
    IF v \notin DOMAIN st.vertexIndex
    THEN [store |-> st, result |-> Raised("KeyError")]
    ELSE [store |-> [st EXCEPT !.vertexIndex = Del(st.vertexIndex, v),
                               !.inDegreeCount = Del(st.inDegreeCount, v),
                               !.outDegreeCount = Del(st.outDegreeCount, v),
                               !.degreeCount = Del(st.degreeCount, v)],
          result |-> Returned(None)]

\* del self.vertexIndex[v]; a del of an absent key raises KeyError
deleteVertex(st, v) ==
    IF v \notin DOMAIN st.vertexIndex
    THEN [store |-> st, result |-> Raised("KeyError")]
    ELSE [store |-> [st EXCEPT !.vertexIndex = Del(st.vertexIndex, v)],
          result |-> Returned(None)]

AddVertex(v) ==
    LET r == addVertex(Store, v)
    IN  /\ SetStore(r.store)
        /\ Called("addVertex", r.result)
        /\ UNCHANGED numAdds
        /\ preAdd' = NoSnapshot

DeleteVertex(v) ==
    LET r == deleteVertex(Store, v)
    IN  /\ SetStore(r.store)
        /\ Called("deleteVertex", r.result)
        /\ UNCHANGED numAdds
        /\ preAdd' = NoSnapshot

----------------------------------------------------------------------------
Next ==
    \/ \E s, e \in VertexNumbers : AddEdge(s, e)
    \/ \E n \in EdgeNumbers : DeleteEdge(n)
    \/ \E v \in VertexNumbers : AddVertex(v)
    \/ \E v \in VertexNumbers : DeleteVertex(v)

Spec == Init /\ [][Next]_vars

----------------------------------------------------------------------------
\* Queries.  Each is an operator on the store that yields the store it
\* leaves and what it returns or raises.  A dict is iterated in ascending key
\* order (the order of a Python 2 dict of small non-negative integers).

RECURSIVE SortedSeq(_)
\* The elements of a finite set of integers, ascending
SortedSeq(S) ==
    IF S = {} THEN <<>>
    ELSE LET m == CHOOSE x \in S : \A y \in S : x <= y
         IN  <<m>> \o SortedSeq(S \ {m})

\* d.keys() / for k in d
Keys(d) == SortedSeq(DOMAIN d)

RECURSIVE OutNeighborsFrom(_, _, _, _)
\* for edge in edges: if edge.startVertex.vertexNumber == v:
\*     outNeighbors.append(edge.startVertex)
OutNeighborsFrom(ei, ks, i, v) ==
    IF i > Len(ks) THEN <<>>
    ELSE LET edge == ei[ks[i]]
         IN  (IF edge.startVertex.vertexNumber = v
              THEN <<edge.startVertex>> ELSE <<>>)
             \o OutNeighborsFrom(ei, ks, i + 1, v)

getOutNeighbors(st, v) ==
    [store |-> st,
     result |-> Returned(OutNeighborsFrom(st.edgeIndex, Keys(st.edgeIndex), 1, v))]

\* for edge in edges: if edge.endVertex.vertexNumber == v:
\*     inNeighbors.append(endVertex)
\* endVertex is no name of the method or the module: the append raises
\* NameError at the first edge that ends at v.
getInNeighbors(st, v) ==
    [store |-> st,
     result |-> IF \E n \in DOMAIN st.edgeIndex :
                      st.edgeIndex[n].endVertex.vertexNumber = v
                THEN Raised("NameError")
                ELSE Returned(<<>>)]

\* return counter[v]: the value, or KeyError for an absent key
Lookup(d, k) == IF k \in DOMAIN d THEN Returned(<<d[k]>>) ELSE Raised("KeyError")

getNumberOfOutNeighbors(st, v) ==
    [store |-> st, result |-> Lookup(st.outDegreeCount, v)]

getNumberOfInNeighbors(st, v) ==
    [store |-> st, result |-> Lookup(st.inDegreeCount, v)]

getNumberOfNeighbors(st, v) ==
    [store |-> st, result |-> Lookup(st.degreeCount, v)]

\* try: dist[n] += 1   except KeyError: dist[n] = 1
Tally(dist, n) ==
    IF n \in DOMAIN dist THEN Put(dist, n, dist[n] + 1) ELSE Put(dist, n, 1)

RECURSIVE DistributionFrom(_, _, _, _)
\* for v in vertexNumbers: n = cnt[v] (0 on KeyError); tally n
DistributionFrom(cnt, ks, i, dist) ==
    IF i > Len(ks) THEN dist
    ELSE DistributionFrom(cnt, ks, i + 1, Tally(dist, Get0(cnt, ks[i])))

getInDegreeDistribution(st) ==
    [store |-> st,
     result |-> Returned(DistributionFrom(st.inDegreeCount, Keys(st.vertexIndex),
                                          1, EmptyDict))]

\* getOutDegreeDistribution reading the in-degree counter
getOutDegreeDistributionFromIn(st) ==
    [store |-> st,
     result |-> Returned(DistributionFrom(st.inDegreeCount, Keys(st.vertexIndex),
                                          1, EmptyDict))]

getOutDegreeDistribution(st) ==
    [store |-> st,
     result |-> Returned(DistributionFrom(st.outDegreeCount, Keys(st.vertexIndex),
                                          1, EmptyDict))]

\* try: joint[o][i] += 1
\* except KeyError:
\*     try: joint[o][i] = 1   except KeyError: joint[o] = {i: 1}
TallyJoint(joint, o, i) ==
    IF o \in DOMAIN joint
    THEN Put(joint, o, Tally(joint[o], i))
    ELSE Put(joint, o, Put(EmptyDict, i, 1))

RECURSIVE JointFrom(_, _, _, _, _)
JointFrom(ocnt, icnt, ks, i, joint) ==
    IF i > Len(ks) THEN joint
    ELSE JointFrom(ocnt, icnt, ks, i + 1,
                   TallyJoint(joint, Get0(ocnt, ks[i]), Get0(icnt, ks[i])))

getJointDistribution(st) ==
    [store |-> st,
     result |-> Returned(JointFrom(st.outDegreeCount, st.inDegreeCount,
                                   Keys(st.vertexIndex), 1, EmptyDict))]

RECURSIVE DegreeDistributionFrom(_, _, _, _)
\* for v in degreeCount.keys(): tally degreeCount[v]
DegreeDistributionFrom(deg, ks, i, dist) ==
    IF i > Len(ks) THEN dist
    ELSE DegreeDistributionFrom(deg, ks, i + 1, Tally(dist, deg[ks[i]]))

getDegreeDistribution(st) ==
    [store |-> st,
     result |-> Returned(DegreeDistributionFrom(st.degreeCount, Keys(st.degreeCount),
                                                1, EmptyDict))]

RECURSIVE VerticesByDegreeFrom(_, _, _, _, _, _)
\* for v in cnt: if cnt[v] == degree: degreeNodes.append(vertexIndex[v])
\* A v absent from vertexIndex raises KeyError.
VerticesByDegreeFrom(cnt, vi, ks, i, degree, nodes) ==
    IF i > Len(ks) THEN Returned(nodes)
    ELSE IF cnt[ks[i]] # degree
         THEN VerticesByDegreeFrom(cnt, vi, ks, i + 1, degree, nodes)
         ELSE IF ks[i] \notin DOMAIN vi THEN Raised("KeyError")
         ELSE VerticesByDegreeFrom(cnt, vi, ks, i + 1, degree,
                                   Append(nodes, vi[ks[i]]))

getVerticesByInDegree(st, degree) ==
    [store |-> st,
     result |-> VerticesByDegreeFrom(st.inDegreeCount, st.vertexIndex,
                                     Keys(st.inDegreeCount), 1, degree, <<>>)]

\* outDegreeCount = self.__inDegreeCount (line 363): the in-degree counter
getVerticesByOutDegree(st, degree) ==
    [store |-> st,
     result |-> VerticesByDegreeFrom(st.inDegreeCount, st.vertexIndex,
                                     Keys(st.inDegreeCount), 1, degree, <<>>)]

----------------------------------------------------------------------------
\* getSCComponents: the run's locals as one record
\*   tracker      vertexTracker: vertex -> <<visited, taken>>
\*   visitNumber, lowLink, stack, counter, largest (largestComponentSize[0]),
\*   allSCC, and exc, the exception that ended the run ("" for none)

\* the local min(a, b)
Min(a, b) == IF a >= b THEN b ELSE a

\* Position of the topmost v on the stack, 0 when v is not on it
StackIndex(stack, v) ==
    IF \E i \in 1..Len(stack) : stack[i] = v
    THEN CHOOSE i \in 1..Len(stack) :
             stack[i] = v /\ \A j \in (i + 1)..Len(stack) : stack[j] # v
    ELSE 0

\* The stack entries from the top down to position i, in popping order
PoppedFrom(stack, i) ==
    [k \in 1..(Len(stack) - i + 1) |-> stack[Len(stack) - k + 1]]

\* KeepComponent with >= for >: a later component of equal size replaces
KeepComponentOnTie(r, scc, getLargest) ==
    IF getLargest > 0
    THEN IF Len(scc) >= r.largest
         THEN [r EXCEPT !.largest = Len(scc),
                        !.allSCC = IF Len(r.allSCC) = 1 THEN <<scc>>
                                   ELSE Append(r.allSCC, scc)]
         ELSE r
    ELSE IF getLargest = 0 THEN [r EXCEPT !.allSCC = Append(r.allSCC, scc)]
    ELSE r

\* if getLargest > 0:
\*     if len(scc) > largestComponentSize[0]: ... keep only scc
\* elif getLargest == 0: allSCC.append(scc)
KeepComponent(r, scc, getLargest) ==
    IF getLargest > 0
    THEN IF Len(scc) > r.largest
         THEN [r EXCEPT !.largest = Len(scc),
                        !.allSCC = IF Len(r.allSCC) = 1 THEN <<scc>>
                                   ELSE Append(r.allSCC, scc)]
         ELSE r
    ELSE IF getLargest = 0 THEN [r EXCEPT !.allSCC = Append(r.allSCC, scc)]
    ELSE r

\* CloseComponent without vertexTracker[poppedVertex][1] = 1
CloseComponentUnmarked(r, v, getLargest) ==
    IF r.lowLink[v] # r.visitNumber[v] THEN r
    ELSE LET i == StackIndex(r.stack, v)
         IN  IF i = 0 THEN [r EXCEPT !.exc = "IndexError"]
             ELSE KeepComponent([r EXCEPT !.stack = SubSeq(r.stack, 1, i - 1)],
                                PoppedFrom(r.stack, i), getLargest)

\* if lowLink[v] == visitNumber[v]: pop down through v into one component,
\* mark each popped vertex taken, keep the component.  Popping an emptied
\* stack raises IndexError.
CloseComponent(r, v, getLargest) ==
    IF r.lowLink[v] # r.visitNumber[v] THEN r
    ELSE LET i == StackIndex(r.stack, v)
         IN  IF i = 0 THEN [r EXCEPT !.exc = "IndexError"]
             ELSE LET scc == PoppedFrom(r.stack, i)
                      members == {scc[k] : k \in 1..Len(scc)}
                      r1 == [r EXCEPT
                               !.stack = SubSeq(r.stack, 1, i - 1),
                               !.tracker = [u \in DOMAIN r.tracker |->
                                   IF u \in members THEN <<r.tracker[u][1], 1>>
                                   ELSE r.tracker[u]]]
                  IN  KeepComponent(r1, scc, getLargest)

\* LowLinkOfVisited leaving lowLink[v] as it is
LowLinkOfVisitedIgnored(r, v, child) == r

\* lowLink[v] = min(lowLink[v], visitNumber[child]) for a visited child
LowLinkOfVisited(r, v, child) ==
    [r EXCEPT !.lowLink = Put(r.lowLink, v, Min(r.lowLink[v], r.visitNumber[child]))]

\* lowLink[v] = min(lowLink[v], lowLink[child]) after the child's visit
LowLinkAfterVisit(r, v, child) ==
    [r EXCEPT !.lowLink = Put(r.lowLink, v, Min(r.lowLink[v], r.lowLink[child]))]

RECURSIVE visit(_, _, _, _)
RECURSIVE visitChildren(_, _, _, _, _, _)

\* for child in children:
\*   if vertexTracker[child][1] != 1:
\*     try: lowLink[v] = min(lowLink[v], visitNumber[child])
\*     except KeyError:
\*         visit(child); lowLink[v] = min(lowLink[v], lowLink[child])
\* vertexTracker[child] raises KeyError for a child absent from vertexIndex.
visitChildren(r, pi, v, children, i, getLargest) ==
    IF i > Len(children) \/ r.exc # "" THEN r
    ELSE LET child == children[i]
         IN  IF child \notin DOMAIN r.tracker THEN [r EXCEPT !.exc = "KeyError"]
             ELSE IF r.tracker[child][2] = 1
                  THEN visitChildren(r, pi, v, children, i + 1, getLargest)
             ELSE IF child \in DOMAIN r.visitNumber
                  THEN visitChildren(LowLinkOfVisited(r, v, child),
                                     pi, v, children, i + 1, getLargest)
             ELSE LET r1 == visit(r, pi, child, getLargest)
                  IN  IF r1.exc # "" THEN r1
                      ELSE visitChildren(LowLinkAfterVisit(r1, v, child),
                                         pi, v, children, i + 1, getLargest)

\* The statements of visit before its loop: mark v visited, number it, push it
EnterVisit(r, v) ==
    [r EXCEPT !.tracker = Put(r.tracker, v, <<1, r.tracker[v][2]>>),
              !.visitNumber = Put(r.visitNumber, v, r.counter),
              !.lowLink = Put(r.lowLink, v, r.counter),
              !.counter = r.counter + 1,
              !.stack = Append(r.stack, v)]

\* children = parentIndex[vertexNumber], [] on KeyError
ChildrenOf(pi, v) == IF v \in DOMAIN pi THEN pi[v] ELSE <<>>

\* visit(vertexNumber, ...)
visit(r, pi, v, getLargest) ==
    LET r1 == EnterVisit(r, v)
        children == ChildrenOf(pi, v)
        r2 == visitChildren(r1, pi, v, children, 1, getLargest)
    IN  IF r2.exc # "" THEN r2 ELSE CloseComponent(r2, v, getLargest)

RECURSIVE visitAll(_, _, _, _, _)
\* for vertexNumber in allVertices:
\*     if not vertexTracker[vertexNumber][0]: mark it visited, visit it
visitAll(r, pi, ks, i, getLargest) ==
    IF i > Len(ks) \/ r.exc # "" THEN r
    ELSE IF r.tracker[ks[i]][1] # 0
         THEN visitAll(r, pi, ks, i + 1, getLargest)
         ELSE visitAll(visit(r, pi, ks[i], getLargest), pi, ks, i + 1, getLargest)

\* The locals of getSCComponents before its main loop
SCCStart(st) ==
    [tracker |-> [v \in DOMAIN st.vertexIndex |-> <<0, 0>>],
     visitNumber |-> EmptyDict, lowLink |-> EmptyDict, stack |-> <<>>,
     counter |-> 0, largest |-> 0, allSCC |-> <<>>, exc |-> ""]

\* The locals of getSCComponents at its return statement (or at the raise)
SCCRun(st, getLargest) ==
    visitAll(SCCStart(st), st.parentIndex, Keys(st.vertexIndex), 1, getLargest)

getSCComponents(st, getLargest) ==
    LET r == SCCRun(st, getLargest)
    IN  [store |-> st,
         result |-> IF r.exc # "" THEN Raised(r.exc) ELSE Returned(r.allSCC)]

----------------------------------------------------------------------------
\* getOutComponent

\* The id of the node that stands for the collapsed component
Sentinel == -1

\* CollapseChildren keeping every child as it is
CollapseChildrenKept(children, i, S) == children

RECURSIVE CollapseChildren(_, _, _)
\* for child in oldChildren: Sentinel if the child is in stronglyCC, else child
CollapseChildren(children, i, S) ==
    IF i > Len(children) THEN <<>>
    ELSE <<IF children[i] \in S THEN Sentinel ELSE children[i]>>
         \o CollapseChildren(children, i + 1, S)

RECURSIVE Collapse(_, _, _, _, _)
\* for parent in parentIndex: its collapsed children extend the sentinel's
\* list when the parent is in stronglyCC, else become the parent's own list
Collapse(pi, ks, i, S, cpi) ==
    IF i > Len(ks) THEN cpi
    ELSE LET parent == ks[i]
             newChildren == CollapseChildren(pi[parent], 1, S)
         IN  Collapse(pi, ks, i + 1, S,
                 IF parent \in S
                 THEN Put(cpi, Sentinel, cpi[Sentinel] \o newChildren)
                 ELSE Put(cpi, parent, newChildren))

RECURSIVE DedupSentinel(_, _, _)
\* for each in collapsedParentIndex[-1]:
\*     if each != -1 and each not in newChildren: newChildren.append(each)
DedupSentinel(list, i, acc) ==
    IF i > Len(list) THEN acc
    ELSE DedupSentinel(list, i + 1,
             IF list[i] # Sentinel /\ ~Contains(acc, list[i])
             THEN Append(acc, list[i]) ELSE acc)

RECURSIVE dfs(_, _, _)
RECURSIVE dfsChildren(_, _, _, _)

\* for child in children:
\*     if child not in visitedVertices: append it, dfs(child, visitedVertices)
dfsChildren(cpi, children, i, visited) ==
    IF i > Len(children) THEN visited
    ELSE IF Contains(visited, children[i])
         THEN dfsChildren(cpi, children, i + 1, visited)
         ELSE dfsChildren(cpi, children, i + 1,
                          dfs(cpi, children[i], Append(visited, children[i])))

\* dfs(v, visitedVertices): the visited list after the call
dfs(cpi, v, visited) ==
    dfsChildren(cpi, IF v \in DOMAIN cpi THEN cpi[v] ELSE <<>>, 1, visited)

\* collapsedParentIndex when dfs is called
CollapsedParentIndex(pi, S) ==
    LET cpi0 == Collapse(pi, Keys(pi), 1, S, Put(EmptyDict, Sentinel, <<>>))
    IN  Put(cpi0, Sentinel, DedupSentinel(cpi0[Sentinel], 1, <<>>))

\* getOutComponent building the collapsed index in self.parentIndex
getOutComponentInPlace(st, S) ==
    LET cpi == CollapsedParentIndex(st.parentIndex, S)
    IN  [store |-> [st EXCEPT !.parentIndex = cpi],
         result |-> Returned(dfs(cpi, Sentinel, <<>>))]

\* getOutComponent(stronglyCC), stronglyCC given as the set of its members
getOutComponent(st, S) ==
    [store |-> st,
     result |-> Returned(dfs(CollapsedParentIndex(st.parentIndex, S),
                             Sentinel, <<>>))]

----------------------------------------------------------------------------
\* findVertex, hasVertex

\* try: return self.vertexIndex[vertexNumber]
\* except KeyError: raise VertexError(...)
findVertex(st, v) ==
    [store |-> st,
     result |-> IF v \in DOMAIN st.vertexIndex
                THEN Returned(st.vertexIndex[v])
                ELSE Raised("VertexError")]

\* hasVertex returning 1 if found, 0 if not
hasVertexTruth(st, v) ==
    [store |-> st,
     result |-> IF findVertex(st, v).result.raised = ""
                THEN Returned(<<1>>) ELSE Returned(<<0>>)]

\* try: rs = self.findVertex(vertexNumber); return 0
\* except VertexError, e: return 1
hasVertex(st, v) ==
    LET rs == findVertex(st, v)
    IN  [store |-> rs.store,
         result |-> IF rs.result.raised = "" THEN Returned(<<0>>)
                    ELSE IF rs.result.raised = "VertexError" THEN Returned(<<1>>)
                    ELSE rs.result]

----------------------------------------------------------------------------
\* The queries as calls

\* Arguments the callers pass
GetLargestArgs == {0, 1}

DegreeArgs == 0..MaxDegreeArg

ComponentArgs == SUBSET VertexNumbers

\* A call of query op with arguments arg, r being the operator's outcome: the
\* store it leaves and what it returned or raised
Queried(op, arg, r) ==
    /\ numCalls < MaxCalls
    /\ lastOp \in MutatingOps
    /\ numCalls' = numCalls + 1
    /\ SetStore(r.store)
    /\ lastOp' = op
    /\ lastArg' = arg
    /\ result' = r.result
    /\ UNCHANGED numAdds
    /\ preAdd' = NoSnapshot
    /\ UNCHANGED run

GetOutNeighbors(v) == Queried("getOutNeighbors", <<v>>, getOutNeighbors(Store, v))

GetInNeighbors(v) == Queried("getInNeighbors", <<v>>, getInNeighbors(Store, v))

GetNumberOfOutNeighbors(v) ==
    Queried("getNumberOfOutNeighbors", <<v>>, getNumberOfOutNeighbors(Store, v))

GetNumberOfInNeighbors(v) ==
    Queried("getNumberOfInNeighbors", <<v>>, getNumberOfInNeighbors(Store, v))

GetNumberOfNeighbors(v) ==
    Queried("getNumberOfNeighbors", <<v>>, getNumberOfNeighbors(Store, v))

GetInDegreeDistribution ==
    Queried("getInDegreeDistribution", None, getInDegreeDistribution(Store))

GetOutDegreeDistribution ==
    Queried("getOutDegreeDistribution", None, getOutDegreeDistribution(Store))

GetJointDistribution ==
    Queried("getJointDistribution", None, getJointDistribution(Store))

GetDegreeDistribution ==
    Queried("getDegreeDistribution", None, getDegreeDistribution(Store))

GetVerticesByInDegree(d) ==
    Queried("getVerticesByInDegree", <<d>>, getVerticesByInDegree(Store, d))

GetVerticesByOutDegree(d) ==
    Queried("getVerticesByOutDegree", <<d>>, getVerticesByOutDegree(Store, d))

GetSCComponents(g) == Queried("getSCComponents", <<g>>, getSCComponents(Store, g))

GetOutComponent(S) == Queried("getOutComponent", <<S>>, getOutComponent(Store, S))

NextQuery ==
    \/ \E v \in VertexNumbers : GetOutNeighbors(v)
    \/ \E v \in VertexNumbers : GetInNeighbors(v)
    \/ \E v \in VertexNumbers : GetNumberOfOutNeighbors(v)
    \/ \E v \in VertexNumbers : GetNumberOfInNeighbors(v)
    \/ \E v \in VertexNumbers : GetNumberOfNeighbors(v)
    \/ GetInDegreeDistribution
    \/ GetOutDegreeDistribution
    \/ GetJointDistribution
    \/ GetDegreeDistribution
    \/ \E d \in DegreeArgs : GetVerticesByInDegree(d)
    \/ \E d \in DegreeArgs : GetVerticesByOutDegree(d)
    \/ \E g \in GetLargestArgs : GetSCComponents(g)
    \/ \E S \in ComponentArgs : GetOutComponent(S)

\* Construction, then mutating calls in any order, then possibly a query
SpecQ == Init /\ [][Next \/ NextQuery]_vars

----------------------------------------------------------------------------
\* The lookups as calls

FindVertex(v) == Queried("findVertex", <<v>>, findVertex(Store, v))

HasVertex(v) == Queried("hasVertex", <<v>>, hasVertex(Store, v))

NextFind ==
    \/ \E v \in VertexNumbers : FindVertex(v)
    \/ \E v \in VertexNumbers : HasVertex(v)

\* Construction, then mutating calls in any order, then possibly a lookup
SpecFind == Init /\ [][Next \/ NextFind]_vars

----------------------------------------------------------------------------
\* getSCComponents statement by statement.  run holds the call in progress:
\*   getLargest  the argument
\*   locals      the locals of the call, as in SCCStart
\*   next        position of the main loop in the keys of vertexIndex
\*   frames      the calls of visit in progress, innermost last, each with its
\*               vertex v and the position i of its loop over the children
\*   visits      history: how often visit was entered for each vertex
\*   done        the call has returned or raised

\* lastOp while the call is in progress
RunningOp == "getSCComponents (in progress)"

Running == run.active /\ ~run.done

\* The innermost call of visit
TopFrame == run.frames[Len(run.frames)]

\* run with the loop position of the innermost visit moved to the next child
AdvanceTop(frames) ==
    [frames EXCEPT ![Len(frames)].i = frames[Len(frames)].i + 1]

\* getSCComponents(g) is called: the locals are set up (lines 431-456)
StartRun(g) ==
    /\ numCalls < MaxCalls
    /\ numCalls <= MaxRunPrefix
    /\ lastOp \in MutatingOps
    /\ numCalls' = numCalls + 1
    /\ lastOp' = RunningOp
    /\ lastArg' = <<g>>
    /\ result' = Returned(None)
    /\ preAdd' = NoSnapshot
    /\ run' = [active |-> TRUE, getLargest |-> g, locals |-> SCCStart(Store),
               next |-> 1, frames |-> <<>>,
               visits |-> [v \in DOMAIN vertexIndex |-> 0], done |-> FALSE]
    /\ UNCHANGED <<storeVars, numAdds>>

\* One iteration of the main loop (lines 458-461): an unvisited vertex is
\* marked and visit is called for it
MainLoopStep ==
    /\ Running
    /\ run.locals.exc = ""
    /\ run.frames = <<>>
    /\ run.next <= Len(Keys(vertexIndex))
    /\ LET v == Keys(vertexIndex)[run.next]
       IN  run' = IF run.locals.tracker[v][1] # 0
                  THEN [run EXCEPT !.next = run.next + 1]
                  ELSE [run EXCEPT !.next = run.next + 1,
                                   !.locals = EnterVisit(run.locals, v),
                                   !.frames = <<[v |-> v, i |-> 1]>>,
                                   !.visits[v] = run.visits[v] + 1]
    /\ UNCHANGED <<storeVars, lastOp, lastArg, result, numCalls, numAdds, preAdd>>

\* One iteration of visit's loop over the children (lines 399-405): a child
\* already taken is skipped, a visited one lowers lowLink[v], an unvisited
\* one is visited; a child without a tracker entry raises KeyError
ChildStep ==
    /\ Running
    /\ run.locals.exc = ""
    /\ run.frames # <<>>
    /\ TopFrame.i <= Len(ChildrenOf(parentIndex, TopFrame.v))
    /\ LET v == TopFrame.v
           child == ChildrenOf(parentIndex, v)[TopFrame.i]
           r == run.locals
       IN  run' =
             IF child \notin DOMAIN r.tracker
             THEN [run EXCEPT !.locals.exc = "KeyError"]
             ELSE IF r.tracker[child][2] = 1
             THEN [run EXCEPT !.frames = AdvanceTop(run.frames)]
             ELSE IF child \in DOMAIN r.visitNumber
             THEN [run EXCEPT !.locals = LowLinkOfVisited(r, v, child),
                              !.frames = AdvanceTop(run.frames)]
             ELSE [run EXCEPT !.locals = EnterVisit(r, child),
                              !.frames = Append(run.frames, [v |-> child, i |-> 1]),
                              !.visits[child] = run.visits[child] + 1]
    /\ UNCHANGED <<storeVars, lastOp, lastArg, result, numCalls, numAdds, preAdd>>

\* The end of visit (lines 410-428): the component is closed if v is its
\* root, visit returns, and the caller lowers its lowLink (line 408)
CloseStep ==
    /\ Running
    /\ run.locals.exc = ""
    /\ run.frames # <<>>
    /\ TopFrame.i > Len(ChildrenOf(parentIndex, TopFrame.v))
    /\ LET v == TopFrame.v
           r1 == CloseComponent(run.locals, v, run.getLargest)
           rest == SubSeq(run.frames, 1, Len(run.frames) - 1)
       IN  run' =
             IF r1.exc # "" THEN [run EXCEPT !.locals = r1]
             ELSE IF rest = <<>>
             THEN [run EXCEPT !.locals = r1, !.frames = rest]
             ELSE [run EXCEPT
                     !.locals = LowLinkAfterVisit(r1, rest[Len(rest)].v, v),
                     !.frames = AdvanceTop(rest)]
    /\ UNCHANGED <<storeVars, lastOp, lastArg, result, numCalls, numAdds, preAdd>>

\* return allSCC (line 463)
ReturnRun ==
    /\ Running
    /\ run.locals.exc = ""
    /\ run.frames = <<>>
    /\ run.next > Len(Keys(vertexIndex))
    /\ run' = [run EXCEPT !.done = TRUE]
    /\ lastOp' = "getSCComponents"
    /\ result' = Returned(run.locals.allSCC)
    /\ UNCHANGED <<storeVars, lastArg, numCalls, numAdds, preAdd>>

\* An exception leaves the call
RaiseRun ==
    /\ Running
    /\ run.locals.exc # ""
    /\ run' = [run EXCEPT !.done = TRUE]
    /\ lastOp' = "getSCComponents"
    /\ result' = Raised(run.locals.exc)
    /\ UNCHANGED <<storeVars, lastArg, numCalls, numAdds, preAdd>>

RunStep == MainLoopStep \/ ChildStep \/ CloseStep \/ ReturnRun \/ RaiseRun

NextRun ==
    \/ \E g \in GetLargestArgs : StartRun(g)
    \/ MainLoopStep
    \/ ChildStep
    \/ CloseStep
    \/ ReturnRun
    \/ RaiseRun

\* Construction, then mutating calls in any order, among which a call of
\* getSCComponents may start; once started it runs on and ends the behaviour
SpecRun == Init /\ [][Next \/ NextRun]_vars /\ WF_vars(RunStep)

----------------------------------------------------------------------------
\* Helpers of the properties

RECURSIVE SumOver(_, _)
\* Sum of d[k], an absent key read as 0, over the keys in S
SumOver(d, S) ==
    IF S = {} THEN 0
    ELSE LET k == CHOOSE x \in S : TRUE
         IN  Get0(d, k) + SumOver(d, S \ {k})

\* Number of entries of seq equal to x
Count(seq, x) == Cardinality({i \in 1..Len(seq) : seq[i] = x})

\* Number of entries equal to v across all adjacency lists
EntriesInto(v) ==
    SumOver([s \in DOMAIN parentIndex |-> Count(parentIndex[s], v)],
            DOMAIN parentIndex)

\* adjacency[v] read with an absent key as the empty list
Adjacency(v) == IF v \in DOMAIN parentIndex THEN parentIndex[v] ELSE <<>>

Succeeded(op) == lastOp = op /\ result.raised = ""

----------------------------------------------------------------------------
\* C1: in every reachable state, for every vertex number v,
\* degreeCount[v] = inDegreeCount[v] + outDegreeCount[v], an absent counter
\* read as 0 (also after an incoming edge followed by an outgoing one, and
\* for self-loops, which add 2 to degreeCount).
DegreeIsInPlusOut ==
    \A v \in VertexNumbers :
        Get0(degreeCount, v) = Get0(inDegreeCount, v) + Get0(outDegreeCount, v)

\* C2: in every reachable state parentIndex and parentEdgeIndex are
\* pointwise consistent: same keys, same lengths, and at every position the
\* same end vertex.
AdjacencyPointwiseConsistent ==
    /\ DOMAIN parentIndex = DOMAIN parentEdgeIndex
    /\ \A s \in DOMAIN parentIndex :
        /\ Len(parentIndex[s]) = Len(parentEdgeIndex[s])
        /\ \A i \in 1..Len(parentIndex[s]) :
               parentIndex[s][i] = parentEdgeIndex[s][i][1]

\* C3: in every reachable state, for every vertex number v,
\* outDegreeCount[v] is the number of entries of adjacency[v] and
\* inDegreeCount[v] is the number of entries equal to v across all adjacency
\* lists (absent read as 0); so the out-counters and the in-counters both sum
\* to the number of edges in edgeIndex.
CountersMatchAdjacency ==
    /\ \A v \in VertexNumbers :
        /\ Get0(outDegreeCount, v) = Len(Adjacency(v))
        /\ Get0(inDegreeCount, v) = EntriesInto(v)
    /\ SumOver(outDegreeCount, DOMAIN outDegreeCount) = Cardinality(DOMAIN edgeIndex)
    /\ SumOver(inDegreeCount, DOMAIN inDegreeCount) = Cardinality(DOMAIN edgeIndex)

\* C3 witness: a deleteEdge has just removed one of three stored edges, two
\* of which leave the same vertex.
CountersMatchAdjacencyWitness ==
    /\ Succeeded("deleteEdge")
    /\ Cardinality(DOMAIN edgeIndex) = 2
    /\ \E v \in DOMAIN outDegreeCount : outDegreeCount[v] = 2
    /\ \E v \in DOMAIN inDegreeCount : inDegreeCount[v] = 2

\* C4: no degree counter ever holds a negative value.
CountersNonNegative ==
    \A v \in VertexNumbers :
        /\ Get0(inDegreeCount, v) >= 0
        /\ Get0(outDegreeCount, v) >= 0
        /\ Get0(degreeCount, v) >= 0

\* C5: addEdge(a,b) assigning e, followed immediately by deleteEdge(e),
\* restores vertexIndex, edgeIndex and the three degree counters (values and
\* key sets) to what they were before the addEdge.
RoundTripRestores ==
    (preAdd.taken /\ Succeeded("deleteEdge")) =>
        /\ vertexIndex = preAdd.vertexIndex
        /\ edgeIndex = preAdd.edgeIndex
        /\ inDegreeCount = preAdd.inDegreeCount
        /\ outDegreeCount = preAdd.outDegreeCount
        /\ degreeCount = preAdd.degreeCount

\* The step is a successful deleteEdge(n)
DeletesEdge(n) == n \in DOMAIN edgeIndex /\ n \notin DOMAIN edgeIndex'

\* C6: deleteEdge(n) removes only edge n: every other edge m (a parallel one
\* in particular) stays in edgeIndex and its pair (end, m) stays in
\* parentEdgeIndex[start]; the number of entries of parentIndex[start] equal
\* to n's end vertex drops by exactly one, and so does outDegreeCount[start].
ParallelDeletePrecise ==
    [][\A n \in EdgeNumbers : DeletesEdge(n) =>
        LET s == edgeIndex[n].startVertex.vertexNumber
            e == edgeIndex[n].endVertex.vertexNumber
        IN  /\ DOMAIN edgeIndex' = DOMAIN edgeIndex \ {n}
            /\ \A m \in DOMAIN edgeIndex' :
                /\ edgeIndex'[m] = edgeIndex[m]
                /\ LET ms == edgeIndex[m].startVertex.vertexNumber
                       me == edgeIndex[m].endVertex.vertexNumber
                   IN  /\ ms \in DOMAIN parentEdgeIndex'
                       /\ Contains(parentEdgeIndex'[ms], <<me, m>>)
            /\ Count(parentIndex'[s], e) = Count(parentIndex[s], e) - 1
            /\ Len(parentIndex'[s]) = Len(parentIndex[s]) - 1
            /\ outDegreeCount'[s] = outDegreeCount[s] - 1
    ]_vars

\* C6 witness: two parallel edges 0->1 were added (numbers 0 and 1), the
\* older was deleted, exactly the newer remains and outDegreeCount[0] = 1.
ParallelDeletePreciseWitness ==
    /\ Succeeded("deleteEdge")
    /\ numAdds = 2
    /\ DOMAIN outDegreeCount = {0}
    /\ DOMAIN inDegreeCount = {1}
    /\ DOMAIN edgeIndex = {1}
    /\ edgeIndex[1] = Edge(0, 1)
    /\ parentEdgeIndex[0] = << <<1, 1>> >>
    /\ parentIndex[0] = <<1>>
    /\ outDegreeCount[0] = 1

\* C7: edge numbers are unique and assigned in strictly increasing order
\* from 0: the k-th addEdge call (k = 0, 1, ...) stores its edge under k
\* whatever deleteEdge calls came between, and every key of edgeIndex is
\* at most getLastEdgeNumber().
EdgeNumbersIncrease ==
    /\ getLastEdgeNumber = numAdds - 1
    /\ \A k \in DOMAIN edgeIndex : 0 <= k /\ k <= getLastEdgeNumber
    /\ lastOp = "addEdge" =>
        /\ numAdds - 1 \in DOMAIN edgeIndex
        /\ numAdds - 1 \notin DOMAIN preAdd.edgeIndex
        /\ \A k \in DOMAIN preAdd.edgeIndex : k < numAdds - 1
        /\ edgeIndex[numAdds - 1] = Edge(preAdd.edge[1], preAdd.edge[2])

\* C7 witness: the second addEdge came after edge 0 was deleted and still
\* got number 1.
EdgeNumbersIncreaseWitness ==
    /\ lastOp = "addEdge"
    /\ numAdds = 2
    /\ DOMAIN edgeIndex = {1}

VertexOpsChangeOnlyVertexIndex ==
    [][\A v \in VertexNumbers :
        /\ (AddVertex(v) /\ v \notin DOMAIN vertexIndex) =>
              /\ result' = Returned(None)
              /\ DOMAIN vertexIndex' = DOMAIN vertexIndex \cup {v}
              /\ vertexIndex'[v] = Vertex(v)
              /\ \A u \in DOMAIN vertexIndex : vertexIndex'[u] = vertexIndex[u]
        /\ (DeleteVertex(v) /\ v \in DOMAIN vertexIndex) =>
              /\ result' = Returned(None)
              /\ DOMAIN vertexIndex' = DOMAIN vertexIndex \ {v}
              /\ \A u \in DOMAIN vertexIndex' : vertexIndex'[u] = vertexIndex[u]
        /\ (AddVertex(v) \/ DeleteVertex(v)) =>
              UNCHANGED <<edgeIndex, parentIndex, parentEdgeIndex, lastEdgeNumber,
                          inDegreeCount, outDegreeCount, degreeCount>>
    ]_vars

\* C10 witness: deleteVertex has just removed a vertex that a stored edge
\* still references.
VertexOpsWitness ==
    /\ Succeeded("deleteVertex")
    /\ \E n \in DOMAIN edgeIndex :
           edgeIndex[n].startVertex.vertexNumber \notin DOMAIN vertexIndex

----------------------------------------------------------------------------
\* Helpers of the query properties

\* The numbers of the stored edges that start at v, and of those that end at v
EdgesFrom(v) ==
    {n \in DOMAIN edgeIndex : edgeIndex[n].startVertex.vertexNumber = v}

EdgesInto(v) ==
    {n \in DOMAIN edgeIndex : edgeIndex[n].endVertex.vertexNumber = v}

\* The query op has just been called
Asked(op) == lastOp = op

\* C11: in every reachable state, getOutNeighbors(v) returns the end vertex
\* of every stored edge that starts at v, and getInNeighbors(v) the start
\* vertex of every stored edge that ends at v, one list entry per edge (the
\* lists compared as bags).
NeighborsAreOtherEnds ==
    /\ Asked("getOutNeighbors") =>
          /\ result.raised = ""
          /\ Len(result.value) = Cardinality(EdgesFrom(lastArg[1]))
          /\ \A w \in VertexNumbers :
                 Count(result.value, Vertex(w)) =
                     Cardinality(EdgesFrom(lastArg[1]) \cap EdgesInto(w))
    /\ Asked("getInNeighbors") =>
          /\ result.raised = ""
          /\ Len(result.value) = Cardinality(EdgesInto(lastArg[1]))
          /\ \A w \in VertexNumbers :
                 Count(result.value, Vertex(w)) =
                     Cardinality(EdgesInto(lastArg[1]) \cap EdgesFrom(w))

\* The three per-vertex degree queries
NumberQueries ==
    {"getNumberOfOutNeighbors", "getNumberOfInNeighbors", "getNumberOfNeighbors"}

\* No stored edge starts or ends at v
Isolated(v) == EdgesFrom(v) \cup EdgesInto(v) = {}

\* C12: getNumberOfOutNeighbors, getNumberOfInNeighbors and
\* getNumberOfNeighbors fail, rather than return a number, whenever the
\* queried vertex is unknown or isolated, also when its edges have all been
\* removed by deleteEdge.
NumberQueriesFailForIsolated ==
    (lastOp \in NumberQueries
        /\ (lastArg[1] \notin DOMAIN vertexIndex \/ Isolated(lastArg[1])))
    => result.raised # ""

\* The number of vertices of vertexIndex with exactly d stored edges going
\* out (coming in)
VerticesWithOutDegree(d) ==
    Cardinality({v \in DOMAIN vertexIndex : Cardinality(EdgesFrom(v)) = d})

VerticesWithInDegree(d) ==
    Cardinality({v \in DOMAIN vertexIndex : Cardinality(EdgesInto(v)) = d})

\* C13: in every reachable state getOutDegreeDistribution() (resp.
\* getInDegreeDistribution()) maps each degree d to the number of vertices of
\* vertexIndex with exactly d outgoing (resp. incoming) stored edges, has an
\* entry exactly for the degrees that occur, and its counts sum to the
\* number of vertices in vertexIndex.
DistributionsCountVertices ==
    /\ Asked("getOutDegreeDistribution") =>
          /\ result.raised = ""
          /\ DOMAIN result.value =
                 {d \in 0..MaxCalls : VerticesWithOutDegree(d) > 0}
          /\ \A d \in DOMAIN result.value :
                 result.value[d] = VerticesWithOutDegree(d)
          /\ SumOver(result.value, DOMAIN result.value) =
                 Cardinality(DOMAIN vertexIndex)
    /\ Asked("getInDegreeDistribution") =>
          /\ result.raised = ""
          /\ DOMAIN result.value =
                 {d \in 0..MaxCalls : VerticesWithInDegree(d) > 0}
          /\ \A d \in DOMAIN result.value :
                 result.value[d] = VerticesWithInDegree(d)
          /\ SumOver(result.value, DOMAIN result.value) =
                 Cardinality(DOMAIN vertexIndex)

\* C13 witness: getOutDegreeDistribution has returned a table that differs
\* from the in-degree one and counts a vertex under degree 0 and another
\* under a degree of 2 or more.
DistributionsWitness ==
    /\ Asked("getOutDegreeDistribution")
    /\ result.raised = ""
    /\ 0 \in DOMAIN result.value
    /\ \E d \in DOMAIN result.value : d >= 2
    /\ \E d \in 0..MaxCalls : VerticesWithOutDegree(d) # VerticesWithInDegree(d)

\* The current total degree of v: stored edges out of v plus stored edges
\* into v (a self-loop counts twice)
TotalDegree(v) == Cardinality(EdgesFrom(v)) + Cardinality(EdgesInto(v))

VerticesWithTotalDegree(d) ==
    Cardinality({v \in VertexNumbers : TotalDegree(v) = d})

\* C14: getDegreeDistribution() counts only the vertices that have an
\* incident stored edge: its result has no entry for degree 0 or for a
\* negative degree, and each entry d is the number of vertices whose current
\* total degree (in + out) is d.
DegreeDistributionCountsIncident ==
    Asked("getDegreeDistribution") =>
        /\ result.raised = ""
        /\ \A d \in DOMAIN result.value :
               /\ d > 0
               /\ result.value[d] = VerticesWithTotalDegree(d)
        /\ \A d \in 1..(2 * MaxCalls) :
               VerticesWithTotalDegree(d) > 0 => d \in DOMAIN result.value

RECURSIVE ReachSet(_)
\* The vertices reachable from a member of S along stored edges, S included
ReachSet(S) ==
    LET T == S \cup {edgeIndex[n].endVertex.vertexNumber :
                        n \in {m \in DOMAIN edgeIndex :
                                 edgeIndex[m].startVertex.vertexNumber \in S}}
    IN  IF T = S THEN S ELSE ReachSet(T)

Reaches(u, v) == v \in ReachSet({u})

\* Every endpoint of a stored edge is a key of vertexIndex
NoDanglingReference ==
    \A n \in DOMAIN edgeIndex :
        /\ edgeIndex[n].startVertex.vertexNumber \in DOMAIN vertexIndex
        /\ edgeIndex[n].endVertex.vertexNumber \in DOMAIN vertexIndex

\* The members of a component given as a list
Members(scc) == {scc[k] : k \in 1..Len(scc)}

IsReturnedComponent(S) ==
    LET all == getSCComponents(Store, 0).result
    IN  /\ all.raised = ""
        /\ \E i \in 1..Len(all.value) : Members(all.value[i]) = S

OutComponentHasNoSentinel ==
    Asked("getOutComponent") =>
        /\ result.raised = ""
        /\ \A k \in 1..Len(result.value) :
               /\ result.value[k] # Sentinel
               /\ result.value[k] \notin lastArg[1]

\* C19: in every reachable state and for every degree d >= 1,
\* getVerticesByOutDegree(d) returns exactly the vertices with d outgoing
\* stored edges, and getVerticesByInDegree(d) exactly those with d incoming
\* stored edges.
VerticesByDegreeHaveThatDegree ==
    /\ (Asked("getVerticesByOutDegree") /\ lastArg[1] >= 1) =>
          /\ result.raised = ""
          /\ Len(result.value) = Cardinality(Members(result.value))
          /\ Members(result.value) =
                 {Vertex(v) : v \in {u \in VertexNumbers :
                                       Cardinality(EdgesFrom(u)) = lastArg[1]}}
    /\ (Asked("getVerticesByInDegree") /\ lastArg[1] >= 1) =>
          /\ result.raised = ""
          /\ Len(result.value) = Cardinality(Members(result.value))
          /\ Members(result.value) =
                 {Vertex(v) : v \in {u \in VertexNumbers :
                                       Cardinality(EdgesInto(u)) = lastArg[1]}}

\* The queries C20 is about
PureReads ==
    {"getSCComponents", "getOutComponent", "getInDegreeDistribution",
     "getOutDegreeDistribution", "getJointDistribution", "getDegreeDistribution"}

\* C20: getSCComponents, getOutComponent and the degree-distribution
\* queries are pure reads: after a call of any of them returns, vertexIndex,
\* edgeIndex, parentIndex (contents and order of every list),
\* parentEdgeIndex, the three degree counters and the edge-number counter
\* are as before the call.
QueriesArePureReads ==
    [][(lastOp' \in PureReads /\ lastOp \notin PureReads /\ result'.raised = "")
          => UNCHANGED storeVars]_vars

\* C20 witness: getOutComponent has returned a non-empty list, having
\* collapsed the adjacency of a store that holds edges.
PureReadsWitness ==
    /\ Asked("getOutComponent")
    /\ result.raised = ""
    /\ result.value # <<>>
    /\ lastArg[1] # {}
    /\ \E s \in DOMAIN parentIndex : parentIndex[s] # <<>>

----------------------------------------------------------------------------
\* Every adjacency entry refers to a vertex in vertexIndex
AdjacencyWithinVertexIndex ==
    \A s \in DOMAIN parentIndex :
        \A k \in 1..Len(parentIndex[s]) : parentIndex[s][k] \in DOMAIN vertexIndex

\* The innermost visit is about to compare lowLink[v] with visitNumber[v]
AtRootTest ==
    /\ Running
    /\ run.locals.exc = ""
    /\ run.frames # <<>>
    /\ TopFrame.i > Len(ChildrenOf(parentIndex, TopFrame.v))

\* What holds at every point of a getSCComponents call on a graph whose
\* adjacency entries are all in vertexIndex
RunIsSound ==
    (run.active /\ AdjacencyWithinVertexIndex) =>
        LET r == run.locals
        IN  /\ r.exc = ""
            /\ \A v \in DOMAIN vertexIndex : run.visits[v] <= 1
            /\ DOMAIN r.visitNumber = {v \in DOMAIN vertexIndex : run.visits[v] = 1}
            /\ \A v \in DOMAIN r.visitNumber :
                   /\ r.lowLink[v] <= r.visitNumber[v]
                   /\ Count(r.stack, v) + r.tracker[v][2] = 1
            /\ (AtRootTest /\ r.lowLink[TopFrame.v] = r.visitNumber[TopFrame.v])
                   => StackIndex(r.stack, TopFrame.v) # 0
            /\ run.done =>
                   /\ result.raised = ""
                   /\ r.stack = <<>>
                   /\ \A v \in DOMAIN vertexIndex :
                          run.visits[v] = 1 /\ r.tracker[v] = <<1, 1>>

\* C21: on a graph whose adjacency entries all refer to vertices in
\* vertexIndex a getSCComponents run terminates; during the run each vertex
\* is visited (numbered and pushed) exactly once, lowLink[v] <=
\* visitNumber[v] always holds, a vertex found to be a root is still on the
\* stack, so the pop loop never pops an empty stack, and at return the
\* stack is empty and every vertex of vertexIndex is marked taken.
SCCRunTerminatesSound ==
    /\ []RunIsSound
    /\ (Running /\ AdjacencyWithinVertexIndex) ~> (run.active /\ run.done)

\* C21 witness: a run has returned after visit called itself for a child
\* and closed a component of two or more vertices.
SCCRunWitness ==
    /\ run.active /\ run.done
    /\ AdjacencyWithinVertexIndex
    /\ result.raised = ""
    /\ \E i \in 1..Len(run.locals.allSCC) : Len(run.locals.allSCC[i]) >= 2

----------------------------------------------------------------------------
\* C22 as stated: hasVertex(v) returns a truth value that is true exactly
\* when v is a key of vertexIndex (exactly when findVertex(v) succeeds) and
\* false exactly when findVertex(v) fails.
HasVertexIsTrueIffPresent ==
    Asked("hasVertex") =>
        /\ result.raised = ""
        /\ (result.value[1] # 0) <=> (lastArg[1] \in DOMAIN vertexIndex)
        /\ (result.value[1] # 0) <=> (findVertex(Store, lastArg[1]).result.raised = "")

\* C22: hasVertex(v) returns 0 exactly when v is a key of vertexIndex, which
\* is exactly when findVertex(v) succeeds (and returns the stored vertex),
\* and 1 exactly when findVertex(v) fails with VertexError, in every
\* reachable state.
HasVertexIsZeroIffPresent ==
    /\ Asked("hasVertex") =>
          /\ result.raised = ""
          /\ result.value[1] \in {0, 1}
          /\ (result.value[1] = 0) <=> (lastArg[1] \in DOMAIN vertexIndex)
          /\ (result.value[1] = 0) <=>
                 (findVertex(Store, lastArg[1]).result.raised = "")
          /\ (result.value[1] = 1) <=>
                 (findVertex(Store, lastArg[1]).result.raised = "VertexError")
    /\ Asked("findVertex") =>
          IF lastArg[1] \in DOMAIN vertexIndex
          THEN result = Returned(vertexIndex[lastArg[1]])
          ELSE result = Raised("VertexError")

\* C22 witness: hasVertex has answered for a vertex that deleteVertex
\* removed while a stored edge still refers to it.
HasVertexWitness ==
    /\ Asked("hasVertex")
    /\ result.raised = ""
    /\ lastArg[1] \notin DOMAIN vertexIndex
    /\ EdgesFrom(lastArg[1]) \cup EdgesInto(lastArg[1]) # {}

====
